---- MODULE Spec2Model ----
(***************************************************************************)
(* Model of makeIndex.js: walk ./docs for *.pdf / *jpg entries, tokenize   *)
(* the base names, natural-sort them, write docs/index.html.               *)
(*                                                                         *)
(* Strings are sequences of character codes (ASCII), a path is a sequence  *)
(* of path components (each a string).                                     *)
(***************************************************************************)
EXTENDS Integers, Sequences, FiniteSets

VARIABLES
    \* ---- the file system the run sees -------------------------------
    docsKind,    \* "absent" | "dir" | "file": what ./docs is
    nodeCount,   \* number of entries below ./docs (ids 1..nodeCount)
    fsParent,    \* id -> id of the containing directory (0 = ./docs)
    fsKind,      \* id -> "dir" | "file" | "other" (symlink, fifo, socket ...)
    fsName,      \* id -> entry name
    indexHtml,   \* content of docs/index.html: a record, see OldIndex
    indexBefore, \* content of docs/index.html when the run started
    \* ---- the run of main() ------------------------------------------
    pc,          \* position of main()
    stack,       \* walkForPdfs activation records, innermost last
    pdfs,        \* result of the outermost walkForPdfs
    pdfObjs,     \* the tokenized, then sorted, records
    html,        \* the list entries of the document handed to writeFile
    writeCalls,  \* number of fs.promises.writeFile calls issued
    walkCalls,   \* number of fs.promises.readdir calls issued
    exitCode,    \* -1 while running, else the process exit status
    stdout,      \* lines printed with console.log
    stderr,      \* lines printed with console.error
    \* ---- the sort pipeline applied to a bare list of paths ----------
    inPaths,     \* the input list of paths
    objs1,       \* after tokenize
    sorted1,     \* after one sort
    sorted2,     \* after sorting sorted1 again
    stage        \* "in" | "tok" | "s1" | "s2"

procVars == <<docsKind, nodeCount, fsParent, fsKind, fsName, indexHtml,
              indexBefore, pc, stack, pdfs, pdfObjs, html, writeCalls,
              walkCalls, exitCode,
              stdout, stderr>>
pureVars == <<inPaths, objs1, sorted1, sorted2, stage>>
vars == <<procVars, pureVars>>

\* ---------------------------------------------------------------------
\* Bounds
\* ---------------------------------------------------------------------
MaxNodes == 3
MaxList == 3

\* ---------------------------------------------------------------------
\* Characters and strings
\* ---------------------------------------------------------------------
\* /\d/ without the u flag: ASCII 0-9 only.
IsDigit(c) == c \in 48..57

\* StrWhiteSpaceChar of ToNumber, restricted to ASCII plus NBSP.
IsWhite(c) == c \in {9, 10, 11, 12, 13, 32, 160}

\* String.prototype.toLowerCase on one ASCII code unit.
LowerChar(c) == IF c \in 65..90 THEN c + 32 ELSE c

toLowerCase(s) == [i \in 1..Len(s) |-> LowerChar(s[i])]

\* String.prototype.endsWith
endsWith(s, suf) ==
    /\ Len(s) >= Len(suf)
    /\ SubSeq(s, Len(s) - Len(suf) + 1, Len(s)) = suf

RECURSIVE TrimLeft(_)
TrimLeft(s) ==
    IF s = <<>> THEN s
    ELSE IF IsWhite(Head(s)) THEN TrimLeft(Tail(s)) ELSE s

RECURSIVE TrimRight(_)
TrimRight(s) ==
    IF s = <<>> THEN s
    ELSE IF IsWhite(s[Len(s)]) THEN TrimRight(SubSeq(s, 1, Len(s) - 1)) ELSE s

Trim(s) == TrimRight(TrimLeft(s))

\* JavaScript's < on two strings: lexicographic on code units.
RECURSIVE StrLess(_, _)
StrLess(s, t) ==
    IF t = <<>> THEN FALSE
    ELSE IF s = <<>> THEN TRUE
    ELSE IF Head(s) # Head(t) THEN Head(s) < Head(t)
    ELSE StrLess(Tail(s), Tail(t))

\* ---------------------------------------------------------------------
\* Tokenizing a base name (main, lines 78-81)
\* ---------------------------------------------------------------------
\* Length of the longest prefix of s whose characters are all digits
\* (digit = TRUE) or all non-digits (digit = FALSE).
RECURSIVE RunLen(_, _)
RunLen(s, digit) ==
    IF s = <<>> \/ IsDigit(Head(s)) # digit THEN 0
    ELSE 1 + RunLen(Tail(s), digit)

\* name.match(/\d+|\D+/g): the maximal digit and non-digit runs, in order.
RECURSIVE Runs(_)
Runs(s) ==
    IF s = <<>> THEN <<>>
    ELSE LET n == RunLen(s, IsDigit(Head(s)))
         IN  <<SubSeq(s, 1, n)>> \o Runs(SubSeq(s, n + 1, Len(s)))

\* ---------------------------------------------------------------------
\* Numbers.  A JavaScript number is an IEEE double; the integers that occur
\* here are kept as their decimal digits (most significant first, no
\* leading zero, <<0>> for zero), so that values beyond 2^53 are rounded the
\* way the conversion rounds them.
\* ---------------------------------------------------------------------
\* The digits of a string of decimal digit characters.
DigitsOf(s) == [i \in 1..Len(s) |-> s[i] - 48]

RECURSIVE StripZeros(_)
StripZeros(d) ==
    IF Len(d) > 1 /\ Head(d) = 0 THEN StripZeros(Tail(d)) ELSE d

\* a < b on two sequences of equal length, position by position.
RECURSIVE LexLess(_, _)
LexLess(a, b) ==
    IF a = <<>> THEN FALSE
    ELSE IF Head(a) # Head(b) THEN Head(a) < Head(b)
    ELSE LexLess(Tail(a), Tail(b))

\* a < b on two digit sequences without leading zeros.
DigitsLess(a, b) ==
    Len(a) < Len(b) \/ (Len(a) = Len(b) /\ LexLess(a, b))

MaxOf(S) == CHOOSE m \in S : \A n \in S : m >= n

\* s with zeros in front up to a multiple of m elements.
PadLeft(s, m) == [i \in 1..((m - (Len(s) % m)) % m) |-> 0] \o s

\* n * m + carry for a number n given by its digits in some base (most
\* significant first, <<>> for zero).
RECURSIVE MulAdd(_, _, _, _)
MulAdd(n, m, carry, base) ==
    IF n = <<>>
    THEN IF carry = 0 THEN <<>>
         ELSE MulAdd(<<>>, m, carry \div base, base) \o <<carry % base>>
    ELSE LET v == n[Len(n)] * m + carry
         IN  MulAdd(SubSeq(n, 1, Len(n) - 1), m, v \div base, base)
               \o <<v % base>>

\* The number with digits ds in base m, written in base `base`.
RECURSIVE Convert(_, _, _)
Convert(ds, m, base) ==
    IF ds = <<>> THEN <<>>
    ELSE MulAdd(Convert(SubSeq(ds, 1, Len(ds) - 1), m, base), m,
                ds[Len(ds)], base)

\* Decimal digits as digits in base 10000, and back.
ToBase10000(d) ==
    LET p == PadLeft(d, 4)
    IN  [j \in 1..(Len(p) \div 4) |->
            p[4 * j - 3] * 1000 + p[4 * j - 2] * 100 + p[4 * j - 1] * 10
              + p[4 * j]]

FromBase10000(n) ==
    IF n = <<>> THEN <<0>>
    ELSE StripZeros([i \in 1..(4 * Len(n)) |->
            (n[((i - 1) \div 4) + 1] \div (10 ^ (3 - ((i - 1) % 4)))) % 10])

\* Value of at most 15 binary digits.
RECURSIVE BitsVal(_)
BitsVal(b) ==
    IF b = <<>> THEN 0
    ELSE 2 * BitsVal(SubSeq(b, 1, Len(b) - 1)) + b[Len(b)]

\* Binary digits as digits in base 2^15, and back (leading zeros kept).
ToBase32768(b) ==
    LET p == PadLeft(b, 15)
    IN  [j \in 1..(Len(p) \div 15) |->
            BitsVal(SubSeq(p, 15 * j - 14, 15 * j))]

FromBase32768(n) ==
    [i \in 1..(15 * Len(n)) |->
        (n[((i - 1) \div 15) + 1] \div (2 ^ (14 - ((i - 1) % 15)))) % 2]

\* The binary digits of decimal digits d, most significant first; <<>> for
\* zero (the conversion of zero has no digit, so nothing is left to strip).
ToBits(d) ==
    StripZeros(FromBase32768(Convert(ToBase10000(d), 10000, 32768)))

\* b + 1 on binary digits.
Increment(b) ==
    LET zeros == { i \in DOMAIN b : b[i] = 0 }
    IN  IF zeros = {} THEN <<1>> \o [i \in 1..Len(b) |-> 0]
        ELSE LET j == MaxOf(zeros)
             IN  SubSeq(b, 1, j - 1) \o <<1>> \o [i \in 1..(Len(b) - j) |-> 0]

\* Round binary digits to the 53 significant bits of a double, to nearest
\* and to even on a tie.
RoundBits(b) ==
    IF Len(b) <= 53 THEN b
    ELSE LET keep   == SubSeq(b, 1, 53)
             guard  == b[54]
             sticky == \E i \in 55..Len(b) : b[i] = 1
             up     == guard = 1 /\ (sticky \/ keep[53] = 1)
         IN  (IF up THEN Increment(keep) ELSE keep)
               \o [i \in 1..(Len(b) - 53) |-> 0]

\* The decimal digits of binary digits.
FromBits(b) == FromBase10000(Convert(ToBase32768(b), 32768, 10000))

\* a - b on decimal digits of equal length with a >= b; borrow is 0 at the
\* start.
RECURSIVE SubFrom(_, _, _)
SubFrom(a, b, borrow) ==
    IF a = <<>> THEN <<>>
    ELSE LET v == a[Len(a)] - b[Len(b)] - borrow
         IN  SubFrom(SubSeq(a, 1, Len(a) - 1), SubSeq(b, 1, Len(b) - 1),
                     IF v < 0 THEN 1 ELSE 0)
               \o <<IF v < 0 THEN v + 10 ELSE v>>

\* a - b on digit sequences without leading zeros, a >= b.
DigitsSub(a, b) ==
    StripZeros(SubFrom(a, [i \in 1..(Len(a) - Len(b)) |-> 0] \o b, 0))

\* Number values.  A number is finite (inf = 0, value = its digits, neg =
\* its sign) or an infinity (inf = 1 or -1); NaNTok is the result of a failed
\* conversion.  A text token carries its text.
NumTok(d) ==
    [type |-> "number", inf |-> 0, neg |-> FALSE, value |-> d, text |-> <<>>]
InfTok(sign) ==
    [type |-> "number", inf |-> sign, neg |-> FALSE, value |-> <<0>>,
     text |-> <<>>]
StrTok(s) ==
    [type |-> "string", inf |-> 0, neg |-> FALSE, value |-> <<0>>, text |-> s]
NaNTok ==
    [type |-> "NaN", inf |-> 0, neg |-> FALSE, value |-> <<0>>, text |-> <<>>]

\* The number with binary digits b that fit a double's mantissa: Infinity
\* when it is beyond the largest double (1024 binary digits).
DoubleOfBits(b) ==
    IF Len(b) > 1024 THEN InfTok(1) ELSE NumTok(FromBits(b))

\* The double nearest to the non-negative integer with digits d.
ToDouble(d) == DoubleOfBits(RoundBits(ToBits(StripZeros(d))))

\* -n
Negate(n) ==
    IF n.inf # 0 THEN [n EXCEPT !.inf = -n.inf]
    ELSE IF n.value = <<0>> THEN n
    ELSE [n EXCEPT !.neg = ~n.neg]

\* The string "Infinity".
InfinityLit == <<73, 110, 102, 105, 110, 105, 116, 121>>

\* ToNumber applied to a string that is one run of Runs: surrounding white
\* space is ignored, the empty string is 0, decimal digits are the double
\* nearest to their value, [+-]Infinity is an infinity, anything else is
\* NaN.  (A run holds only digits or only non-digits, so no other numeric
\* literal can occur.)
ToNumber(t) ==
    LET u == Trim(t) IN
    IF u = <<>> THEN NumTok(<<0>>)
    ELSE IF \A i \in 1..Len(u) : IsDigit(u[i]) THEN ToDouble(DigitsOf(u))
    ELSE IF u = InfinityLit \/ u = <<43>> \o InfinityLit THEN InfTok(1)
    ELSE IF u = <<45>> \o InfinityLit THEN InfTok(-1)
    ELSE NaNTok

\* The global isNaN on a string.
isNaN(t) == ToNumber(t).type = "NaN"

\* t => (isNaN(t) ? t.toLowerCase() : Number(t))
MapToken(t) == IF isNaN(t) THEN StrTok(toLowerCase(t)) ELSE ToNumber(t)

\* path.basename of a path given as its components.
basename(p) == p[Len(p)]

\* path.basename(name).match(/\d+|\D+/g).map(...)
Tokenize(p) ==
    LET r == Runs(basename(p)) IN [i \in 1..Len(r) |-> MapToken(r[i])]

\* name => ({ name, tokens })
MakeObj(p) == [name |-> p, tokens |-> Tokenize(p)]

\* ---------------------------------------------------------------------
\* The comparator (main, lines 83-96)
\* ---------------------------------------------------------------------
\* x - y on two different numbers, neither of them negative and finite
\* (tokens never are): the double nearest to the difference.
Minus(x, y) ==
    IF x.inf # 0 \/ y.inf # 0
    THEN InfTok(IF x.inf > y.inf THEN 1 ELSE -1)
    ELSE IF DigitsLess(y.value, x.value)
    THEN ToDouble(DigitsSub(x.value, y.value))
    ELSE Negate(ToDouble(DigitsSub(y.value, x.value)))

\* Operand of the abstract relational comparison, converted to a number.
AsNumber(x) == IF x.type = "string" THEN ToNumber(x.text) ELSE x

\* x < y on tokens: two strings compare by code units, otherwise both sides
\* are converted to numbers and a NaN makes the comparison false.
Less(x, y) ==
    IF x.type = "string" /\ y.type = "string" THEN StrLess(x.text, y.text)
    ELSE LET nx == AsNumber(x)
             ny == AsNumber(y)
         IN  /\ nx.type # "NaN"
             /\ ny.type # "NaN"
             /\ \/ nx.inf < ny.inf
                \/ /\ nx.inf = 0
                   /\ ny.inf = 0
                   /\ DigitsLess(nx.value, ny.value)

\* The literals 0, 1 and -1 the comparator returns.
Zero == NumTok(<<0>>)
One == NumTok(<<1>>)
MinusOne == Negate(One)

\* order < 0 and order >= 0 as the sort reads a comparator result.
IsNegative(n) == n.inf = -1 \/ (n.inf = 0 /\ n.neg)

Max(m, n) == IF m >= n THEN m ELSE n

\* The loop with "if (y === undefined) return -1": a missing token loses on
\* either side.
RECURSIVE CompareFrom_MissingAlwaysFirst(_, _, _)
CompareFrom_MissingAlwaysFirst(a, b, i) ==
    IF i > Max(Len(a), Len(b)) THEN Zero
    ELSE IF i > Len(a) THEN MinusOne
    ELSE IF i > Len(b) THEN MinusOne
    ELSE IF a[i].type = "number" /\ b[i].type = "number"
         THEN IF a[i] # b[i] THEN Minus(a[i], b[i])
              ELSE CompareFrom_MissingAlwaysFirst(a, b, i + 1)
    ELSE IF a[i] # b[i] THEN (IF Less(a[i], b[i]) THEN MinusOne ELSE One)
    ELSE CompareFrom_MissingAlwaysFirst(a, b, i + 1)

\* The loop body from index i (1-based) on.
RECURSIVE CompareFrom(_, _, _)
CompareFrom(a, b, i) ==
    IF i > Max(Len(a), Len(b)) THEN Zero
    ELSE IF i > Len(a) THEN MinusOne
    ELSE IF i > Len(b) THEN One
    ELSE IF a[i].type = "number" /\ b[i].type = "number"
         THEN IF a[i] # b[i] THEN Minus(a[i], b[i])
              ELSE CompareFrom(a, b, i + 1)
    ELSE IF a[i] # b[i] THEN (IF Less(a[i], b[i]) THEN MinusOne ELSE One)
    ELSE CompareFrom(a, b, i + 1)

\* (a, b) => ... on two token sequences.
CompareTokens(a, b) == CompareFrom(a, b, 1)

\* The comparator on two records.
Compare(a, b) == CompareTokens(a.tokens, b.tokens)

\* ---------------------------------------------------------------------
\* Array.prototype.sort as the Node.js runtime performs it for arrays of
\* fewer than 64 elements: find the initial run, reverse it when it is
\* strictly descending, then binary-insert the remaining elements.
\* ---------------------------------------------------------------------
\* Length of the run starting at the first element; idx is the 1-based
\* position of the element examined next.
RECURSIVE ExtendRun(_, _, _)
ExtendRun(arr, desc, idx) ==
    IF idx > Len(arr) THEN idx - 1
    ELSE LET order == Compare(arr[idx], arr[idx - 1])
         IN  IF (desc /\ ~IsNegative(order)) \/ (~desc /\ IsNegative(order))
             THEN idx - 1
             ELSE ExtendRun(arr, desc, idx + 1)

Reverse(s) == [i \in 1..Len(s) |-> s[Len(s) + 1 - i]]

\* The array after the initial run was made ascending, and the run length.
CountAndMakeRun(arr) ==
    IF Len(arr) = 1 THEN [arr |-> arr, run |-> 1]
    ELSE LET desc == IsNegative(Compare(arr[2], arr[1]))
             run  == ExtendRun(arr, desc, 3)
         IN  [arr |-> IF desc
                      THEN Reverse(SubSeq(arr, 1, run))
                             \o SubSeq(arr, run + 1, Len(arr))
                      ELSE arr,
              run |-> run]

\* Binary search for the insertion point of pivot in arr[left+1..right]
\* (left and right are the 0-based bounds of the runtime's loop).
RECURSIVE FindSlot(_, _, _, _)
FindSlot(arr, pivot, left, right) ==
    IF left >= right THEN left
    ELSE LET mid == left + ((right - left) \div 2)
         IN  IF IsNegative(Compare(pivot, arr[mid + 1]))
             THEN FindSlot(arr, pivot, left, mid)
             ELSE FindSlot(arr, pivot, mid + 1, right)

\* Insert the elements at 0-based positions start.. into the sorted prefix.
RECURSIVE BinaryInsertionSort(_, _)
BinaryInsertionSort(arr, start) ==
    IF start >= Len(arr) THEN arr
    ELSE LET pivot == arr[start + 1]
             left  == FindSlot(arr, pivot, 0, start)
             moved == SubSeq(arr, 1, left) \o <<pivot>>
                        \o SubSeq(arr, left + 1, start)
                        \o SubSeq(arr, start + 2, Len(arr))
         IN  BinaryInsertionSort(moved, start + 1)

\* pdfObjs.sort(comparator)
ArraySort(arr) ==
    IF Len(arr) < 2 THEN arr
    ELSE LET r == CountAndMakeRun(arr)
         IN  IF r.run < Len(arr) THEN BinaryInsertionSort(r.arr, r.run)
             ELSE r.arr

\* pdfs.map(...) followed by .sort(...)
TokenizeAll(ps) == [i \in 1..Len(ps) |-> MakeObj(ps[i])]

\* ---------------------------------------------------------------------
\* Names used as inputs
\* ---------------------------------------------------------------------
DotPdf == <<46, 112, 100, 102>>            \* ".pdf"
Jpg == <<106, 112, 103>>                   \* "jpg"
DocsName == <<100, 111, 99, 115>>          \* "docs"

\* path.join(process.cwd(), "docs"), as the components below the working
\* directory.
docsDir == <<DocsName>>

\* path.join(dir, name)
join(dir, name) == Append(dir, name)

SortNames ==
    { <<97, 49>> \o DotPdf,                \* a1.pdf
      <<97, 50>> \o DotPdf,                \* a2.pdf
      <<97, 49, 48>> \o DotPdf,            \* a10.pdf
      <<48, 49>> \o DotPdf,                \* 01.pdf
      <<48, 50>> \o DotPdf,                \* 02.pdf
      <<49, 48>> \o DotPdf,                \* 10.pdf
      <<97>> \o DotPdf,                    \* a.pdf
      <<66>> \o DotPdf,                    \* B.pdf
      <<98>> \o DotPdf,                    \* b.pdf
      <<49, 32, 50>> \o DotPdf,            \* "1 2.pdf"
      <<50, 48, 50, 51, 49, 48, 49, 53, 49, 50, 51, 48, 52, 53, 49, 50, 51,
        52, 53, 54>> \o DotPdf,            \* 20231015123045123456.pdf
      <<50, 48, 50, 51, 49, 48, 49, 53, 49, 50, 51, 48, 52, 53, 49, 50, 51,
        52, 53, 55>> \o DotPdf,            \* 20231015123045123457.pdf
      InfinityLit \o <<49>> \o DotPdf,     \* Infinity1.pdf
      toLowerCase(InfinityLit) \o <<49>> \o DotPdf,   \* infinity1.pdf
      Jpg,                                 \* jpg
      Jpg \o <<49>> \o Jpg }               \* jpg1jpg

\* Contents of docs/index.html: no file, a complete document with its list
\* entries, or what an interrupted write leaves behind.
NoIndex == [state |-> "absent", entries |-> <<>>]
OldIndex == [state |-> "complete",
             entries |-> <<[href |-> <<111, 108, 100>> \o DotPdf,
                            label |-> <<111, 108, 100>> \o DotPdf]>>]
PartialIndex == [state |-> "partial", entries |-> <<>>]

SeqsUpTo(S, n) == UNION { [1..k -> S] : k \in 0..n }

\* ---------------------------------------------------------------------
\* The sort pipeline of main on a bare list of paths (lines 78-96)
\* ---------------------------------------------------------------------
IdleProc ==
    /\ docsKind = "absent"
    /\ nodeCount = 0
    /\ fsParent = <<>>
    /\ fsKind = <<>>
    /\ fsName = <<>>
    /\ indexHtml = NoIndex
    /\ indexBefore = NoIndex
    /\ pc = "idle"
    /\ stack = <<>>
    /\ pdfs = <<>>
    /\ pdfObjs = <<>>
    /\ html = <<>>
    /\ writeCalls = 0
    /\ walkCalls = 0
    /\ exitCode = -1
    /\ stdout = <<>>
    /\ stderr = <<>>

SortInit ==
    /\ IdleProc
    /\ inPaths \in SeqsUpTo({join(docsDir, n) : n \in SortNames}, MaxList)
    /\ objs1 = <<>>
    /\ sorted1 = <<>>
    /\ sorted2 = <<>>
    /\ stage = "in"

\* const pdfObjs = pdfs.map(name => ({ name, tokens: ... }))
DoTokenize ==
    /\ stage = "in"
    /\ objs1' = TokenizeAll(inPaths)
    /\ stage' = "tok"
    /\ UNCHANGED <<procVars, inPaths, sorted1, sorted2>>

\* pdfObjs.sort(comparator)
DoSort ==
    /\ stage = "tok"
    /\ sorted1' = ArraySort(objs1)
    /\ stage' = "s1"
    /\ UNCHANGED <<procVars, inPaths, objs1, sorted2>>

\* the same sort applied to the sorted array
DoSortAgain ==
    /\ stage = "s1"
    /\ sorted2' = ArraySort(sorted1)
    /\ stage' = "s2"
    /\ UNCHANGED <<procVars, inPaths, objs1, sorted1>>

SortNext == DoTokenize \/ DoSort \/ DoSortAgain

SortSpec == SortInit /\ [][SortNext]_vars

\* ---------------------------------------------------------------------
\* The directory tree
\* ---------------------------------------------------------------------
WalkNames ==
    { <<50>> \o DotPdf,                    \* 2.pdf
      <<49, 48>> \o DotPdf,                \* 10.pdf
      <<120, 32>> \o Jpg,                  \* "x jpg"
      <<110, 46, 116, 120, 116>> }         \* n.txt

Kinds == {"dir", "file", "other"}

\* A directory tree below ./docs: every entry lies in ./docs (0) or in an
\* earlier entry that is a directory, and no directory holds a name twice.
WellFormedTree(n, parent, kind, name) ==
    /\ \A i \in 1..n :
         /\ parent[i] < i
         /\ IF parent[i] = 0 THEN TRUE ELSE kind[parent[i]] = "dir"
    /\ \A i, j \in 1..n :
         (i # j /\ parent[i] = parent[j]) => name[i] # name[j]

\* Ids of the entries of directory d in the order readdir lists them.
RECURSIVE ChildrenFrom(_, _)
ChildrenFrom(d, i) ==
    IF i > nodeCount THEN <<>>
    ELSE (IF fsParent[i] = d THEN <<i>> ELSE <<>>) \o ChildrenFrom(d, i + 1)

readdir(d) == ChildrenFrom(d, 1)

\* Path of entry i, as path.join builds it during the walk.
RECURSIVE PathOf(_)
PathOf(i) == IF i = 0 THEN docsDir ELSE join(PathOf(fsParent[i]), fsName[i])

\* ---------------------------------------------------------------------
\* walkForPdfs (lines 11-23)
\* ---------------------------------------------------------------------
\* The condition without the isFile() test.
Matches_AnyKind(kind, name) == endsWith(name, DotPdf) \/ endsWith(name, Jpg)

\* The condition parenthesised as isFile() && (pdf || jpg).
Matches_FileOnly(kind, name) ==
    kind = "file" /\ (endsWith(name, DotPdf) \/ endsWith(name, Jpg))

\* entry.isFile() && entry.name.endsWith(".pdf") || entry.name.endsWith("jpg")
Matches(kind, name) ==
    (kind = "file" /\ endsWith(name, DotPdf)) \/ endsWith(name, Jpg)

\* An activation of walkForPdfs(dir) whose readdir has not resolved yet.
NewFrame(dir) == [dir |-> dir, todo |-> <<>>, results |-> <<>>]

\* Run the innermost activation until it awaits the readdir of a nested
\* call or the outermost call returns.  st is the stack of activations,
\* each with its directory (as path), the entries still to visit and its
\* results so far.
RECURSIVE Advance(_)
Advance(st) ==
    LET top == Len(st)
        f   == st[top]
    IN  IF f.todo = <<>>
        THEN IF top = 1
             THEN [stack |-> <<>>, done |-> TRUE, results |-> f.results]
             ELSE Advance([SubSeq(st, 1, top - 1) EXCEPT
                             ![top - 1].results = @ \o f.results])
        ELSE LET e    == Head(f.todo)
                 full == join(f.dir, fsName[e])
                 rest == [st EXCEPT ![top].todo = Tail(@)]
             IN  IF fsKind[e] = "dir"
                 THEN [stack |-> Append(rest, NewFrame(full)),
                       done |-> FALSE, results |-> <<>>]
                 ELSE IF Matches(fsKind[e], fsName[e])
                 THEN Advance([rest EXCEPT ![top].results = Append(@, full)])
                 ELSE Advance(rest)

\* Id of the directory a path names (0 for ./docs).
DirId(p) == CHOOSE i \in 0..nodeCount : PathOf(i) = p

\* ---------------------------------------------------------------------
\* generateHtmlIndex (lines 31-65)
\* ---------------------------------------------------------------------
\* path.relative(from, to) for a path to below from.
relative(from, to) == SubSeq(to, Len(from) + 1, Len(to))

\* components.join("/")
RECURSIVE JoinSlash(_)
JoinSlash(cs) ==
    IF cs = <<>> THEN <<>>
    ELSE IF Len(cs) = 1 THEN cs[1]
    ELSE cs[1] \o <<47>> \o JoinSlash(Tail(cs))

\* Characters encodeURI leaves alone: letters, digits and ;/?:@&=+$,-_.!~*'()#
Unescaped(c) ==
    \/ c \in 48..57 \/ c \in 65..90 \/ c \in 97..122
    \/ c \in {59, 47, 63, 58, 64, 38, 61, 43, 36, 44, 45, 95, 46, 33, 126,
              42, 39, 40, 41, 35}

HexDigit(n) == IF n < 10 THEN 48 + n ELSE 55 + n

\* encodeURI on a string of ASCII characters.
RECURSIVE encodeURI(_)
encodeURI(s) ==
    IF s = <<>> THEN <<>>
    ELSE (IF Unescaped(Head(s)) THEN <<Head(s)>>
          ELSE <<37, HexDigit(Head(s) \div 16), HexDigit(Head(s) % 16)>>)
         \o encodeURI(Tail(s))

\* One <li><a href="${href}">${relToDocs}</a></li> line.
ListItem(absPath) ==
    LET relToDocs == JoinSlash(relative(docsDir, absPath))
    IN  [href |-> encodeURI(relToDocs), label |-> relToDocs]

\* pdfPaths.map(...): the <li> lines of the document, in order.
ListItems(pdfPaths) == [i \in 1..Len(pdfPaths) |-> ListItem(pdfPaths[i])]

\* ---------------------------------------------------------------------
\* main (lines 67-104)
\* ---------------------------------------------------------------------
IdlePure ==
    /\ inPaths = <<>>
    /\ objs1 = <<>>
    /\ sorted1 = <<>>
    /\ sorted2 = <<>>
    /\ stage = "idle"

Init ==
    /\ IdlePure
    /\ docsKind \in {"absent", "dir", "file"}
    /\ nodeCount \in 0..MaxNodes
    /\ docsKind # "dir" => nodeCount = 0
    /\ fsParent \in [1..nodeCount -> 0..MaxNodes]
    /\ fsKind \in [1..nodeCount -> Kinds]
    /\ fsName \in [1..nodeCount -> WalkNames]
    /\ WellFormedTree(nodeCount, fsParent, fsKind, fsName)
    /\ indexHtml \in {NoIndex, OldIndex}
    /\ indexBefore = indexHtml
    /\ pc = "start"
    /\ stack = <<>>
    /\ pdfs = <<>>
    /\ pdfObjs = <<>>
    /\ html = <<>>
    /\ writeCalls = 0
    /\ walkCalls = 0
    /\ exitCode = -1
    /\ stdout = <<>>
    /\ stderr = <<>>

\* Lines 70-74: stat fails, the error is reported, process.exit(1).
StatMissing ==
    /\ pc = "start"
    /\ docsKind = "absent"
    /\ stderr' = Append(stderr, [text |-> "Error: docs directory not found",
                                 syscall |-> "none"])
    /\ exitCode' = 1
    /\ pc' = "exited"
    /\ UNCHANGED <<docsKind, nodeCount, fsParent, fsKind, fsName, indexHtml,
                   indexBefore, stack, pdfs, pdfObjs, html, writeCalls, walkCalls, stdout,
                   pureVars>>

\* main without the existence test: the walk starts whatever stat says.
StatOk_NoExistsTest ==
    /\ pc = "start"
    /\ stack' = <<NewFrame(docsDir)>>
    /\ walkCalls' = walkCalls + 1
    /\ pc' = "readdir"
    /\ UNCHANGED <<docsKind, nodeCount, fsParent, fsKind, fsName, indexHtml,
                   indexBefore, pdfs, pdfObjs, html, writeCalls, exitCode, stdout, stderr,
                   pureVars>>

\* Lines 70-76 and 12-13: stat succeeds, walkForPdfs(docsDir) is called and
\* awaits its readdir.
StatOk ==
    /\ pc = "start"
    /\ docsKind # "absent"
    /\ stack' = <<NewFrame(docsDir)>>
    /\ walkCalls' = walkCalls + 1
    /\ pc' = "readdir"
    /\ UNCHANGED <<docsKind, nodeCount, fsParent, fsKind, fsName, indexHtml,
                   indexBefore, pdfs, pdfObjs, html, writeCalls, exitCode, stdout, stderr,
                   pureVars>>

\* Lines 13-22: the awaited readdir resolves and the walk runs on to the
\* next readdir or to the return of the outermost call (line 76).
ReaddirOk ==
    /\ pc = "readdir"
    /\ LET d == DirId(stack[Len(stack)].dir)
           r == Advance([stack EXCEPT ![Len(stack)].todo = readdir(d)])
       IN  /\ d = 0 => docsKind = "dir"
           /\ stack' = r.stack
           /\ pdfs' = r.results
           /\ pc' = IF r.done THEN "walked" ELSE "readdir"
           /\ walkCalls' = IF r.done THEN walkCalls ELSE walkCalls + 1
    /\ UNCHANGED <<docsKind, nodeCount, fsParent, fsKind, fsName, indexHtml,
                   indexBefore, pdfObjs, html, writeCalls, exitCode, stdout, stderr,
                   pureVars>>

\* A walker that reports a failed readdir and carries on as if the
\* directory were empty.
ReaddirFail_CarryOn ==
    /\ pc = "readdir"
    /\ LET r == Advance(stack)
       IN  /\ stack' = r.stack
           /\ pdfs' = r.results
           /\ pc' = IF r.done THEN "walked" ELSE "readdir"
           /\ walkCalls' = IF r.done THEN walkCalls ELSE walkCalls + 1
    /\ stderr' = Append(stderr, [text |-> "Failed:", syscall |-> "scandir"])
    /\ UNCHANGED <<docsKind, nodeCount, fsParent, fsKind, fsName, indexHtml,
                   indexBefore, pdfObjs, html, writeCalls, exitCode, stdout, pureVars>>

\* Lines 13, 17, 76, 100-103: the awaited readdir rejects; the rejection
\* passes through every enclosing walkForPdfs to the catch of main.
ReaddirFail ==
    /\ pc = "readdir"
    /\ stack' = <<>>
    /\ stderr' = Append(stderr, [text |-> "Failed:", syscall |-> "scandir"])
    /\ exitCode' = 1
    /\ pc' = "exited"
    /\ UNCHANGED <<docsKind, nodeCount, fsParent, fsKind, fsName, indexHtml,
                   indexBefore, pdfs, pdfObjs, html, writeCalls, walkCalls, stdout,
                   pureVars>>

\* Lines 78-96: tokenize and sort.
TokenizeAndSort ==
    /\ pc = "walked"
    /\ pdfObjs' = ArraySort(TokenizeAll(pdfs))
    /\ pc' = "sorted"
    /\ UNCHANGED <<docsKind, nodeCount, fsParent, fsKind, fsName, indexHtml,
                   indexBefore, stack, pdfs, html, writeCalls, walkCalls, exitCode, stdout,
                   stderr, pureVars>>

\* generateHtmlIndex called with the walker's list instead of the sorted one.
Generate_Unsorted ==
    /\ pc = "sorted"
    /\ html' = ListItems(pdfs)
    /\ writeCalls' = writeCalls + 1
    /\ pc' = "writing"
    /\ UNCHANGED <<docsKind, nodeCount, fsParent, fsKind, fsName, indexHtml,
                   indexBefore, stack, pdfs, pdfObjs, walkCalls, exitCode, stdout, stderr,
                   pureVars>>

\* Lines 98 and 31-64: build the document and call writeFile.
Generate ==
    /\ pc = "sorted"
    /\ html' = ListItems([i \in 1..Len(pdfObjs) |-> pdfObjs[i].name])
    /\ writeCalls' = writeCalls + 1
    /\ pc' = "writing"
    /\ UNCHANGED <<docsKind, nodeCount, fsParent, fsKind, fsName, indexHtml,
                   indexBefore, stack, pdfs, pdfObjs, walkCalls, exitCode, stdout, stderr,
                   pureVars>>

\* Lines 64 and 99: the write completes, the summary is printed and the
\* process ends with status 0.
WriteOk ==
    /\ pc = "writing"
    /\ indexHtml' = [state |-> "complete", entries |-> html]
    /\ stdout' = Append(stdout, [text |-> "index.html has been written with",
                                 count |-> Len(pdfs)])
    /\ exitCode' = 0
    /\ pc' = "exited"
    /\ UNCHANGED <<docsKind, nodeCount, fsParent, fsKind, fsName, indexBefore,
                   stack, pdfs, pdfObjs, html, writeCalls, walkCalls, stderr, pureVars>>

\* Lines 64 and 100-103: the write fails.  Either the file could not be
\* opened (the error's syscall is "open" and the content stays), or it was
\* opened and truncated and a write to it failed (the error's syscall is
\* "write" and the file is left partial).
WriteFail ==
    /\ pc = "writing"
    /\ \E failedAt \in {"open", "write"} :
          /\ indexHtml' = IF failedAt = "open" THEN indexHtml
                          ELSE PartialIndex
          /\ stderr' = Append(stderr,
                              [text |-> "Failed:", syscall |-> failedAt])
    /\ exitCode' = 1
    /\ pc' = "exited"
    /\ UNCHANGED <<docsKind, nodeCount, fsParent, fsKind, fsName, indexBefore,
                   stack, pdfs, pdfObjs, html, writeCalls, walkCalls, stdout,
                   pureVars>>

Next ==
    \/ StatMissing
    \/ StatOk
    \/ ReaddirOk
    \/ ReaddirFail
    \/ TokenizeAndSort
    \/ Generate
    \/ WriteOk
    \/ WriteFail

Spec == Init /\ [][Next]_vars

\* =====================================================================
\* Properties
\* =====================================================================
Range(s) == { s[i] : i \in DOMAIN s }

\* Sign of a comparator result.
Sgn(n) == IF IsNegative(n) THEN -1 ELSE IF n = Zero THEN 0 ELSE 1

\* Number of positions of s holding x.
Count(s, x) == Cardinality({ i \in DOMAIN s : s[i] = x })

\* The outermost walkForPdfs has returned its list to main.
WalkReturned ==
    pc \in {"walked", "sorted", "writing"} \/ (pc = "exited" /\ writeCalls > 0)

\* The run ended after a readdir was rejected.
FailedInWalk ==
    /\ pc = "exited"
    /\ \E i \in DOMAIN stderr : stderr[i].syscall = "scandir"

Succeeded == pc = "exited" /\ exitCode = 0

\* C1: when ./docs does not exist the run ends with status 1 after the
\* missing-directory message, no readdir is ever issued and docs/index.html
\* is never written.
C1_MissingDocsExits ==
    docsKind = "absent" =>
        /\ walkCalls = 0
        /\ writeCalls = 0
        /\ stack = <<>>
        /\ indexHtml = indexBefore
        /\ pc = "exited" =>
             /\ exitCode = 1
             /\ stdout = <<>>
             /\ Len(stderr) = 1
             /\ stderr[1].text = "Error: docs directory not found"

C1_Witness ==
    docsKind = "absent" /\ pc = "exited" /\ indexBefore = OldIndex

\* C2: the comparator is a total preorder on token sequences: comparing a
\* sequence with itself gives 0, swapping the arguments flips the sign, and
\* a <= b with b <= c gives a <= c.
C2_TotalPreorder ==
    stage = "tok" =>
        \A i, j, k \in DOMAIN objs1 :
            LET a == objs1[i].tokens
                b == objs1[j].tokens
                c == objs1[k].tokens
            IN  /\ Sgn(CompareTokens(a, a)) = 0
                /\ Sgn(CompareTokens(a, b)) = -Sgn(CompareTokens(b, a))
                /\ (/\ Sgn(CompareTokens(a, b)) <= 0
                    /\ Sgn(CompareTokens(b, c)) <= 0)
                     => Sgn(CompareTokens(a, c)) <= 0

\* The entries of the tree the walker is to return: the entries that are
\* not directories and are a regular file named *.pdf or anything named
\* *jpg.
ExpectedPaths ==
    { PathOf(i) : i \in
        { n \in 1..nodeCount :
            /\ fsKind[n] # "dir"
            /\ \/ fsKind[n] = "file" /\ endsWith(fsName[n], DotPdf)
               \/ endsWith(fsName[n], Jpg) } }

\* C3: the set of paths walkForPdfs returns is exactly the set of entries at
\* any depth that are not directories and are a regular file named *.pdf or
\* an entry of any other kind named *jpg.
C3_WalkerResultSet == WalkReturned => Range(pdfs) = ExpectedPaths

C3_Witness ==
    /\ WalkReturned
    /\ \E p \in Range(pdfs) : Len(p) >= 3
    /\ \E n \in 1..nodeCount :
         fsKind[n] = "other" /\ PathOf(n) \in Range(pdfs)
    /\ \E n \in 1..nodeCount :
         fsKind[n] = "file" /\ PathOf(n) \notin Range(pdfs)

\* Label of the list entry of a path: the components below ./docs joined
\* with "/".
LabelOf(p) == JoinSlash(SubSeq(p, 2, Len(p)))

\* C4: after a successful run docs/index.html lists exactly the walker's
\* paths, each once, in the order the sort left them, and the summary
\* prints their number.
C4_IndexListsWalkerResult ==
    Succeeded =>
        LET es == indexHtml.entries IN
        /\ indexHtml.state = "complete"
        /\ Len(es) = Len(pdfs)
        /\ \A p \in Range(pdfs) :
             Count([i \in DOMAIN es |-> es[i].label], LabelOf(p))
               = Count(pdfs, p)
        /\ pdfObjs = ArraySort(TokenizeAll(pdfs))
        /\ \A i \in DOMAIN es :
             /\ es[i].label = LabelOf(pdfObjs[i].name)
             /\ es[i].href = encodeURI(es[i].label)
        /\ \A i \in 1..(Len(es) - 1) :
             Sgn(Compare(pdfObjs[i + 1], pdfObjs[i])) >= 0
        /\ Len(stdout) = 1
        /\ stdout[1].count = Len(es)

C4_Witness ==
    /\ Succeeded
    /\ Len(indexHtml.entries) >= 2
    /\ [i \in DOMAIN pdfObjs |-> pdfObjs[i].name] # pdfs
    /\ \E i \in DOMAIN indexHtml.entries :
         indexHtml.entries[i].href # indexHtml.entries[i].label

\* C5: a run that fails before the write step ends with status 1, prints no
\* summary and leaves docs/index.html as it was; the write is never issued.
C5_FailureBeforeWrite ==
    /\ writeCalls = 0 => indexHtml = indexBefore
    /\ FailedInWalk =>
         /\ exitCode = 1
         /\ stdout = <<>>
         /\ writeCalls = 0
         /\ indexHtml = indexBefore

C5_Witness ==
    /\ FailedInWalk
    /\ walkCalls >= 2
    /\ indexBefore = OldIndex

\* Two base names are identical except for one digit run, and that run of
\* p has the smaller value.
SmallerDigitRun(p, q) ==
    LET rp == Runs(p)
        rq == Runs(q)
    IN  /\ Len(rp) = Len(rq)
        /\ \E k \in DOMAIN rp :
             /\ IsDigit(rp[k][1])
             /\ IsDigit(rq[k][1])
             /\ DigitsLess(StripZeros(DigitsOf(rp[k])),
                           StripZeros(DigitsOf(rq[k])))
             /\ \A m \in DOMAIN rp : m # k => rp[m] = rq[m]

\* C6: of two names that are identical except for one digit run, the one
\* whose run has the smaller value comes first in the sorted list.
C6_NumericOrder ==
    stage = "s1" =>
        \A i, j \in DOMAIN sorted1 :
            SmallerDigitRun(basename(sorted1[i].name),
                            basename(sorted1[j].name)) => i < j

\* C7: sorting the sorted list again yields the same list, element for
\* element.
C7_SortIdempotent == stage = "s2" => sorted2 = sorted1

C7_Witness ==
    /\ stage = "s2"
    /\ Len(sorted1) >= 3
    /\ sorted1 # objs1
    /\ \E i, j \in DOMAIN objs1 :
         /\ Sgn(Compare(objs1[i], objs1[j])) > 0
         /\ Sgn(Compare(objs1[j], objs1[i])) > 0

\* C8: letter case never decides the order: a.pdf sorts before B.pdf, and two
\* names that differ only in letter case compare equal.
C8_CaseInsensitive ==
    stage = "tok" =>
        \A i, j \in DOMAIN objs1 :
            LET p == basename(objs1[i].name)
                q == basename(objs1[j].name)
            IN  /\ toLowerCase(p) = toLowerCase(q)
                     => Sgn(Compare(objs1[i], objs1[j])) = 0
                /\ (p = <<97>> \o DotPdf /\ q = <<66>> \o DotPdf)
                     => Sgn(Compare(objs1[i], objs1[j])) < 0

\* C9 as stated: every entry named *jpg is in the walker's result whatever
\* its kind, directories included.
C9_JpgAnyKindIncluded ==
    WalkReturned =>
        \A n \in 1..nodeCount :
            endsWith(fsName[n], Jpg) => PathOf(n) \in Range(pdfs)

\* C9 amended: an entry named *jpg is in the walker's result exactly when it
\* is not a directory, whether it is a regular file or not; a directory of
\* that name is descended into and not listed.
C9_JpgNonDirectoryIncluded ==
    WalkReturned =>
        \A n \in 1..nodeCount :
            endsWith(fsName[n], Jpg) =>
                (PathOf(n) \in Range(pdfs) <=> fsKind[n] # "dir")

C9_Witness ==
    /\ WalkReturned
    /\ \E n \in 1..nodeCount :
         /\ endsWith(fsName[n], Jpg)
         /\ fsKind[n] = "other"
         /\ PathOf(n) \in Range(pdfs)
    /\ \E n, m \in 1..nodeCount :
         /\ endsWith(fsName[n], Jpg)
         /\ fsKind[n] = "dir"
         /\ fsParent[m] = n
         /\ PathOf(m) \in Range(pdfs)

\* C10: the tokens of a base name are its maximal runs in order, a digit run
\* as its integer value and any other run as its lowercased text, so that
\* number and text tokens alternate.
C10_TokensAreRuns ==
    stage = "tok" =>
        \A i \in DOMAIN objs1 :
            LET r == Runs(basename(objs1[i].name))
                t == objs1[i].tokens
            IN  /\ Len(t) = Len(r)
                /\ \A k \in DOMAIN r :
                     IF IsDigit(r[k][1])
                     THEN t[k] = NumTok(StripZeros(DigitsOf(r[k])))
                     ELSE t[k] = StrTok(toLowerCase(r[k]))
                /\ \A k \in 1..(Len(t) - 1) : t[k].type # t[k + 1].type

====
